---------------------------- MODULE Spec2Model ----------------------------
(***************************************************************************)
(* Draft assistant: roster-need computation (mapStateToProps), the         *)
(* recommendation pipeline (PlayerTableContainer.render), the scoring       *)
(* modal (ScoringModal.changeScoring), the catalog fetch on window load     *)
(* (_app) and the state updates of the player table (setState,             *)
(* componentDidUpdate).                                                     *)
(*                                                                          *)
(* Conventions of the translation                                           *)
(*  - a JS object used as a set of truthy keys ({QB: true, ...}) is the set *)
(*    of its keys;                                                          *)
(*  - an empty roster slot (null) is the record Null; every other slot      *)
(*    value is a player record and is truthy;                               *)
(*  - a possibly missing number (p[adpCol]) is [defined, value];            *)
(*  - for the player table, scoring holds the points per reception only,   *)
(*    counted in hundredths of a point, and ADPs are whole picks;           *)
(*  - for the scoring modal, scoring is the whole profile, one binary64     *)
(*    number per category, with the arithmetic of JS numbers;               *)
(*  - the reducers are not part of the sources: an action given to          *)
(*    store.dispatch is appended to dispatched and the store stays as read; *)
(*  - store.players is cachedPlayers;                                       *)
(*  - a player object is identified by its index in undraftedPlayers, so a  *)
(*    Set of players is a set of indices;                                   *)
(*  - an array handed to setState is a new object, which is never identical *)
(*    (===) to the array in this.state, whatever it holds.                  *)
(***************************************************************************)
EXTENDS Integers, Sequences, FiniteSets, TLC

VARIABLES roster, undraftedPlayers, currentPick, scoring,
          nameFilter, positionsToShow, props, view, phase,
          pending, prevState, handled, renders,
          event, dispatched,
          cachedPlayers, lastSync, lastSyncPlayers, now,
          fetchState, response, warnings

storeVars == <<roster, undraftedPlayers, currentPick, scoring>>
stateVars == <<nameFilter, positionsToShow>>
updateVars == <<pending, prevState, handled, renders>>
tableVars == <<nameFilter, positionsToShow, props, view, phase, updateVars>>
modalVars == <<event>>
startupVars == <<cachedPlayers, lastSync, lastSyncPlayers, now,
                 fetchState, response, warnings>>
vars == <<roster, undraftedPlayers, currentPick, scoring,
          nameFilter, positionsToShow, props, view, phase,
          pending, prevState, handled, renders,
          event, dispatched,
          cachedPlayers, lastSync, lastSyncPlayers, now,
          fetchState, response, warnings>>

----------------------------------------------------------------------------
(* Bounds *)

BenchSize == 2
MaxSuperflex == 1
MaxPlayers == 4
MaxTail == 2
MaxPick == 2
MaxReceptions == 150
MaxEntered == 9
MaxDecimals == 1
MaxFeed == 2
MaxRenders == 3

----------------------------------------------------------------------------
(* Player.ts *)

SlotTags == {"QB", "RB", "WR", "FLEX", "SUPERFLEX", "TE", "DST", "K",
             "BENCH", "?"}

wildCardPositionsFlexQB ==
  [tag \in SlotTags |->
     CASE tag = "FLEX"      -> {"QB", "WR", "RB", "TE"}
       [] tag = "SUPERFLEX" -> {"QB", "WR", "RB", "TE"}
       [] OTHER             -> {}]

wildCardPositions ==
  [tag \in SlotTags |->
     CASE tag = "FLEX"      -> {"WR", "RB", "TE"}
       [] tag = "SUPERFLEX" -> {"QB", "WR", "RB", "TE"}
       [] OTHER             -> {}]

Null == [pos |-> "null", team |-> "", bye |-> 0]

\* !!p
Truthy(p) == p # Null

----------------------------------------------------------------------------
(* mapStateToProps: positions the tracked team still has room for *)

notFilledAllEmpty(pos) == \A i \in 1..Len(pos) : ~Truthy(pos[i])

\* const notFilled = (pos) => !pos.every((p) => !!p)
notFilled(pos) == ~(\A i \in 1..Len(pos) : Truthy(pos[i]))

\* if (notFilled(QB)) ... if (notFilled(RB)) ... if (notFilled(WR)) ...
\* if (notFilled(TE)) ...
primaryNeeds(r) ==
  (IF notFilled(r.QB) THEN {"QB"} ELSE {}) \cup
  (IF notFilled(r.RB) THEN {"RB"} ELSE {}) \cup
  (IF notFilled(r.WR) THEN {"WR"} ELSE {}) \cup
  (IF notFilled(r.TE) THEN {"TE"} ELSE {})

wildcardNeedsNoTE(r) ==
  (IF notFilled(r.FLEX) THEN {"RB", "WR"} ELSE {}) \cup
  (IF notFilled(r.SUPERFLEX) THEN {"QB", "RB", "WR"} ELSE {})

\* if (notFilled(FLEX)) ... if (notFilled(SUPERFLEX)) ...
wildcardNeeds(r) ==
  (IF notFilled(r.FLEX) THEN {"RB", "WR", "TE"} ELSE {}) \cup
  (IF notFilled(r.SUPERFLEX) THEN {"QB", "RB", "WR", "TE"} ELSE {})

\* BENCH.filter((p) => p && p.pos === 'QB').length
qbBackupCount(BENCH) ==
  Cardinality({i \in 1..Len(BENCH) : Truthy(BENCH[i]) /\ BENCH[i].pos = "QB"})

\* BENCH.filter((p) => p && p.pos === 'TE').length
teBackupCount(BENCH) ==
  Cardinality({i \in 1..Len(BENCH) : Truthy(BENCH[i]) /\ BENCH[i].pos = "TE"})

depthNeedsTwoBackups(BENCH) ==
  {"RB", "WR"} \cup
  (IF qbBackupCount(BENCH) < 2 THEN {"QB"} ELSE {}) \cup
  (IF teBackupCount(BENCH) < 2 THEN {"TE"} ELSE {})

\* always want more RBs and WRs; only want one backup QB and TE
depthNeeds(BENCH) ==
  {"RB", "WR"} \cup
  (IF qbBackupCount(BENCH) < 1 THEN {"QB"} ELSE {}) \cup
  (IF teBackupCount(BENCH) < 1 THEN {"TE"} ELSE {})

\* only want one of each K and DST, none on bench
kickerDefenseNeeds(r) ==
  (IF notFilled(r.K) THEN {"K"} ELSE {}) \cup
  (IF notFilled(r.DST) THEN {"DST"} ELSE {})

valuedPositionsAlwaysDepth(r) ==
  primaryNeeds(r) \cup wildcardNeeds(r) \cup depthNeeds(r.BENCH)
    \cup kickerDefenseNeeds(r)

valuedPositionsKickerFirst(r) ==
  LET starters == primaryNeeds(r) \cup wildcardNeeds(r)
                    \cup kickerDefenseNeeds(r)
  IN  IF starters = {} THEN depthNeeds(r.BENCH) ELSE starters

\* the valuedPositions object built by mapStateToProps
valuedPositions(r) ==
  LET starters == primaryNeeds(r) \cup wildcardNeeds(r)
      \* if (!Object.keys(valuedPositions).length)
      withDepth == IF starters = {} THEN depthNeeds(r.BENCH) ELSE starters
  IN  withDepth \cup kickerDefenseNeeds(r)

\* bye weeks already taken by the core players
byeWeeksWithTE(r) ==
  LET core == r.QB \o r.RB \o r.WR \o r.TE \o r.FLEX \o r.SUPERFLEX
      bye(i) == IF Truthy(core[i]) THEN core[i].bye ELSE 0
  IN  {bye(i) : i \in {j \in 1..Len(core) : bye(j) # 0}}

byeWeeks(r) ==
  LET core == r.QB \o r.RB \o r.WR \o r.FLEX \o r.SUPERFLEX
      \* .map((p) => p && p.bye): null and a bye of 0 are both falsy
      bye(i) == IF Truthy(core[i]) THEN core[i].bye ELSE 0
  IN  {bye(i) : i \in {j \in 1..Len(core) : bye(j) # 0}}

\* teams of the rostered RBs
rbHandcuffTeams(r) ==
  LET rbs == r.RB \o r.FLEX
  IN  {rbs[i].team : i \in {j \in 1..Len(rbs) :
                              Truthy(rbs[j]) /\ rbs[j].pos = "RB"}}

mapStateToProps(r, pick, sc, undrafted) ==
  [ byeWeeks         |-> byeWeeks(r),
    currentPick      |-> pick,
    rbHandcuffTeams  |-> rbHandcuffTeams(r),
    scoring          |-> sc,
    undraftedPlayers |-> undrafted,
    valuedPositions  |-> valuedPositions(r) ]

----------------------------------------------------------------------------
(* PlayerTableContainer.render *)

Range(f) == {f[i] : i \in DOMAIN f}

Abs(x) == IF x < 0 THEN 0 - x ELSE x

Upper == <<"A", "B", "C", "D", "E", "F", "G", "H", "I", "J", "K", "L", "M",
           "N", "O", "P", "Q", "R", "S", "T", "U", "V", "W", "X", "Y", "Z">>
Lower == <<"a", "b", "c", "d", "e", "f", "g", "h", "i", "j", "k", "l", "m",
           "n", "o", "p", "q", "r", "s", "t", "u", "v", "w", "x", "y", "z">>

\* String.prototype.toLowerCase on a sequence of characters
lowerOf == [c \in Range(Upper) |->
              Lower[CHOOSE k \in 1..Len(Upper) : Upper[k] = c]]

toLowerCase(s) ==
  [i \in 1..Len(s) |->
     IF s[i] \in DOMAIN lowerOf THEN lowerOf[s[i]] ELSE s[i]]

\* String.prototype.startsWith
startsWith(s, prefix) ==
  Len(prefix) <= Len(s) /\ SubSeq(s, 1, Len(prefix)) = prefix

\* String.prototype.split(' '): always at least one piece
RECURSIVE split(_)
split(s) ==
  IF \E i \in 1..Len(s) : s[i] = " "
  THEN LET k == CHOOSE i \in 1..Len(s) :
                  s[i] = " " /\ \A j \in 1..(i - 1) : s[j] # " "
       IN  <<SubSeq(s, 1, k - 1)>> \o split(SubSeq(s, k + 1, Len(s)))
  ELSE <<s>>

\* players after filtering by position: TRUE where the player is hidden
positionFiltered(players, pts) ==
  IF Len(pts) = 1 /\ pts[1] = "?"
  THEN [i \in 1..Len(players) |-> FALSE]
  ELSE [i \in 1..Len(players) |-> players[i].pos \notin Range(pts)]

\* the callback of the second filteredPlayers.map: is the name a mismatch
nameMismatch(name, nameFilterLower) ==
  LET lowercaseName == toLowerCase(name)
      names == split(lowercaseName)
      firstNameMatch == startsWith(names[1], nameFilterLower)
      lastNameMatch ==
        IF Len(names) >= 2 /\ names[2] # <<>>
        THEN startsWith(names[2], nameFilterLower)
        ELSE FALSE
  IN  ~(startsWith(lowercaseName, nameFilterLower)
          \/ firstNameMatch \/ lastNameMatch)

filteredPlayers(players, nf, pts) ==
  LET byPosition == positionFiltered(players, pts)
      nameFilterLower == toLowerCase(nf)
  IN  IF nameFilterLower # <<>>
      THEN [i \in 1..Len(players) |->
              IF byPosition[i] THEN TRUE
              ELSE nameMismatch(players[i].name, nameFilterLower)]
      ELSE byPosition

\* [0, 0.5, 1] in hundredths of a point, and the column of each candidate
AdpCandidates == <<0, 50, 100>>
AdpColumns == <<"std", "halfPpr", "ppr">>

adpDiff(receptions) ==
  [k \in 1..Len(AdpCandidates) |-> Abs(AdpCandidates[k] - receptions)]

minDiff(receptions) ==
  LET d == adpDiff(receptions)
  IN  CHOOSE m \in Range(d) : \A x \in Range(d) : m <= x

minDiffIndexLast(receptions) ==
  LET d == adpDiff(receptions)
  IN  CHOOSE k \in 1..Len(d) :
        d[k] = minDiff(receptions)
          /\ \A j \in (k + 1)..Len(d) : d[j] # minDiff(receptions)

\* adpDiff.indexOf(minDiff): the first index holding the minimum
minDiffIndex(receptions) ==
  LET d == adpDiff(receptions)
  IN  CHOOSE k \in 1..Len(d) :
        d[k] = minDiff(receptions)
          /\ \A j \in 1..(k - 1) : d[j] # minDiff(receptions)

adpCol(receptions) == AdpColumns[minDiffIndex(receptions)]

\* a column value that may be missing on the player object
NoAdp == [defined |-> FALSE, value |-> 0]
Adp(v) == [defined |-> TRUE, value |-> v]

\* p[adpCol] > 0: false for undefined
positive(a) == a.defined /\ a.value > 0

\* p[adpCol] === 0: false for undefined
isZero(a) == a.defined /\ a.value = 0

DraftSoonWindow == 8
ValueCap == 3
HandcuffWindow == 30

draftSoonStrict(players, filtered, col, pick) ==
  [i \in 1..Len(players) |->
     /\ ~filtered[i]
     /\ positive(players[i][col])
     /\ pick + DraftSoonWindow > players[i][col].value]

draftSoonStdColumn(players, filtered, col, pick) ==
  [i \in 1..Len(players) |->
     /\ ~filtered[i]
     /\ positive(players[i].std)
     /\ pick + DraftSoonWindow >= players[i].std.value]

draftSoonHidden(players, filtered, col, pick) ==
  [i \in 1..Len(players) |->
     /\ positive(players[i][col])
     /\ pick + DraftSoonWindow >= players[i][col].value]

\* players that will be drafted soon
draftSoon(players, filtered, col, pick) ==
  [i \in 1..Len(players) |->
     /\ ~filtered[i]
     /\ positive(players[i][col])
     /\ pick + DraftSoonWindow >= players[i][col].value]

rbHandcuffsAnyPosition(players, filtered, cuffTeams) ==
  {i \in 1..Len(players) :
     ~filtered[i] /\ players[i].team \in cuffTeams}

\* players that are RB handcuffs
rbHandcuffs(players, filtered, cuffTeams) ==
  {i \in 1..Len(players) :
     ~filtered[i] /\ players[i].pos = "RB" /\ players[i].team \in cuffTeams}

recommendStepNoCap(st, i, players, soon, cuffs, col, valued) ==
  LET add == [count |-> st.count + 1, acc |-> st.acc \cup {i}]
  IN  IF players[i].pos \in valued
      THEN IF soon[i] \/ isZero(players[i][col]) THEN add ELSE st
      ELSE IF i - 1 < HandcuffWindow /\ i \in cuffs THEN add ELSE st

recommendStepLateStart(st, i, players, soon, cuffs, col, valued) ==
  LET add == [count |-> st.count + 1, acc |-> st.acc \cup {i}]
  IN  IF i > 1 /\ st.count < ValueCap /\ players[i].pos \in valued
      THEN IF soon[i] \/ isZero(players[i][col]) THEN add ELSE st
      ELSE IF i - 1 < HandcuffWindow /\ i \in cuffs THEN add ELSE st

recommendStepNoWindow(st, i, players, soon, cuffs, col, valued) ==
  LET add == [count |-> st.count + 1, acc |-> st.acc \cup {i}]
  IN  IF st.count < ValueCap /\ players[i].pos \in valued
      THEN IF soon[i] \/ isZero(players[i][col]) THEN add ELSE st
      ELSE IF i \in cuffs THEN add ELSE st

\* one call of the reduce callback on the player at (1-based) index i;
\* st.count is recommendedCount and st.acc the accumulated players
recommendStep(st, i, players, soon, cuffs, col, valued) ==
  LET add == [count |-> st.count + 1, acc |-> st.acc \cup {i}]
  IN  IF st.count < ValueCap /\ players[i].pos \in valued
      THEN IF soon[i] \/ isZero(players[i][col]) THEN add ELSE st
      ELSE IF i - 1 < HandcuffWindow /\ i \in cuffs THEN add ELSE st

RECURSIVE reduceRecommended(_, _, _, _, _, _, _)
reduceRecommended(st, i, players, soon, cuffs, col, valued) ==
  IF i > Len(players) THEN st
  ELSE reduceRecommended(
         recommendStep(st, i, players, soon, cuffs, col, valued),
         i + 1, players, soon, cuffs, col, valued)

\* players that will be recommended
recommended(players, soon, cuffs, col, valued) ==
  reduceRecommended([count |-> 0, acc |-> {}], 1,
                    players, soon, cuffs, col, valued).acc

render(p, nf, pts) ==
  LET players == p.undraftedPlayers
      filtered == filteredPlayers(players, nf, pts)
      col == adpCol(p.scoring.receptions)
      soon == draftSoon(players, filtered, col, p.currentPick)
      cuffs == rbHandcuffs(players, filtered, p.rbHandcuffTeams)
  IN  [ adpCol          |-> col,
        draftSoon       |-> soon,
        filteredPlayers |-> filtered,
        recommended     |-> recommended(players, soon, cuffs, col,
                                        p.valuedPositions),
        rbHandcuffs     |-> cuffs ]

NoView ==
  [ adpCol |-> "", draftSoon |-> <<>>, filteredPlayers |-> <<>>,
    recommended |-> {}, rbHandcuffs |-> {} ]

----------------------------------------------------------------------------
(* PlayerTableContainer: the component state and its updates *)

\* the positions a filter button can name
Positions == SlotTags \cup {"?"}

\* a field of the object given to setState: absent, or the new value
Absent == [set |-> FALSE, value |-> <<>>]
Given(v) == [set |-> TRUE, value |-> v]

\* an update React has queued: new props, and the object given to setState
NoUpdate ==
  [props |-> FALSE, nameFilter |-> Absent, positionsToShow |-> Absent]

\* the state the component is constructed with
constructed == [nameFilter |-> <<>>, positionsToShow |-> <<"?">>]

\* the object setNameFilter gives to setState
setNameFilter(value) == [NoUpdate EXCEPT !.nameFilter = Given(value)]

togglePositionFilterKeepAll(pts, position) ==
  IF position = "?" THEN <<"?">>
  ELSE IF position \in Range(pts)
    THEN LET rest == SelectSeq(pts, LAMBDA p : p # position)
         IN  IF Len(rest) > 0 THEN rest ELSE <<"?">>
    ELSE Append(pts, position)

togglePositionFilterNoRemove(pts, position) ==
  IF position = "?" THEN <<"?">>
  ELSE Append(SelectSeq(pts, LAMBDA p : p # "?"), position)

\* the positionsToShow togglePositionFilter gives to setState
togglePositionFilter(pts, position) ==
  IF position = "?" THEN <<"?">>
  ELSE IF position \in Range(pts)
    THEN LET rest == SelectSeq(pts, LAMBDA p : p # position)
         IN  IF Len(rest) > 0 THEN rest ELSE <<"?">>
    ELSE Append(SelectSeq(pts, LAMBDA p : p # "?"), position)

\* the positionsToShow resetPositionFilter gives to setState
resetPositionFilter == <<"?">>

\* this.state after the queued update is applied
nextState(nf, pts, update) ==
  [ nameFilter |->
      IF update.nameFilter.set THEN update.nameFilter.value ELSE nf,
    positionsToShow |->
      IF update.positionsToShow.set THEN update.positionsToShow.value
      ELSE pts ]

shouldComponentUpdateAlways(nf, pts, update) == TRUE

\* React.PureComponent: render again unless the props and the state are
\* shallowly equal to the ones rendered
shouldComponentUpdate(nf, pts, update) ==
  \/ update.props
  \/ update.positionsToShow.set
  \/ update.nameFilter.set /\ update.nameFilter.value # nf

componentDidUpdateNever(prevNameFilter, nf) == NoUpdate

\* the object componentDidUpdate gives to setState, NoUpdate when it does
\* not call setState
componentDidUpdate(prevNameFilter, nf) ==
  IF prevNameFilter = nf
  THEN [NoUpdate EXCEPT !.nameFilter = Given(<<>>)]
  ELSE NoUpdate

\* a call of one of the component's handlers, with this.state.positionsToShow
\* as the handler read it
Call(handler, text, position, before) ==
  [handler |-> handler, text |-> text, position |-> position,
   before |-> before]

NoCall == Call("", <<>>, "?", <<"?">>)

----------------------------------------------------------------------------
(* JS numbers: IEEE-754 binary64 values with round-to-nearest-even *)

\* significand bits of a JS number
Precision == 53

RECURSIVE Pow2(_)
Pow2(k) == IF k = 0 THEN 1 ELSE 2 * Pow2(k - 1)

RECURSIVE Pow10(_)
Pow10(k) == IF k = 0 THEN 1 ELSE 10 * Pow10(k - 1)

NaN == [kind |-> "NaN", neg |-> FALSE, sig |-> <<>>, exp |-> 0]

Zero == [kind |-> "zero", neg |-> FALSE, sig |-> <<>>, exp |-> 0]

\* (-1)^neg * 0.sig * 2^exp, with sig[1] = 1 and Len(sig) = Precision
Num(neg, sig, exp) == [kind |-> "num", neg |-> neg, sig |-> sig, exp |-> exp]

\* bits, most significant first and starting with a 1, of a value
\* 0.bits * 2^exp whose further bits are non-zero iff sticky: the nearest
\* number of Precision bits, ties to the even significand
roundNearestEven(neg, bits, sticky, exp) ==
  LET keep   == SubSeq(bits, 1, Precision)
      rest   == sticky \/ \E i \in (Precision + 2)..Len(bits) : bits[i] = 1
      up     == /\ Len(bits) > Precision
                /\ bits[Precision + 1] = 1
                /\ (rest \/ keep[Precision] = 1)
      zeros  == {i \in 1..Precision : keep[i] = 0}
      last   == CHOOSE k \in zeros : \A j \in zeros : j <= k
  IN  IF ~up THEN Num(neg, keep, exp)
      ELSE IF zeros = {}
        THEN Num(neg, [i \in 1..Precision |-> IF i = 1 THEN 1 ELSE 0], exp + 1)
        ELSE Num(neg,
                 [i \in 1..Precision |->
                    IF i < last THEN keep[i] ELSE IF i = last THEN 1 ELSE 0],
                 exp)

\* the first n bits of num/den after the binary point (0 <= num < den) and
\* the remainder left; the digits of the second half continue from the
\* remainder of the first
RECURSIVE fractionBits(_, _, _)
fractionBits(num, den, n) ==
  IF n = 0 THEN [bits |-> <<>>, rem |-> num]
  ELSE IF n = 1
    THEN IF 2 * num >= den
         THEN [bits |-> <<1>>, rem |-> 2 * num - den]
         ELSE [bits |-> <<0>>, rem |-> 2 * num]
    ELSE LET left  == fractionBits(num, den, n \div 2)
             right == fractionBits(left.rem, den, n - n \div 2)
         IN  [bits |-> left.bits \o right.bits, rem |-> right.rem]

\* the number nearest to a/b, for integers a > 0 and b > 0
ratio(neg, a, b) ==
  LET up   == CHOOSE e \in 0..24 :
                a < b * Pow2(e) /\ (e = 0 \/ a >= b * Pow2(e - 1))
      down == CHOOSE k \in 0..24 :
                a * Pow2(k) < b * Pow2(up) /\ a * Pow2(k + 1) >= b * Pow2(up)
      frac == fractionBits(a * Pow2(down), b * Pow2(up), Precision + 1)
  IN  roundNearestEven(neg, frac.bits, frac.rem # 0, up - down)

\* long division of 0.bits by n: the quotient bits lo..hi, given the
\* remainder left by the bits before lo, and the remainder left after hi
RECURSIVE quotientBits(_, _, _, _, _)
quotientBits(bits, n, lo, hi, rem) ==
  IF lo > hi THEN [bits |-> <<>>, rem |-> rem]
  ELSE IF lo = hi
    THEN LET d == 2 * rem + (IF lo <= Len(bits) THEN bits[lo] ELSE 0)
         IN  IF d >= n THEN [bits |-> <<1>>, rem |-> d - n]
             ELSE [bits |-> <<0>>, rem |-> d]
    ELSE LET mid   == (lo + hi) \div 2
             left  == quotientBits(bits, n, lo, mid, rem)
             right == quotientBits(bits, n, mid + 1, hi, left.rem)
         IN  [bits |-> left.bits \o right.bits, rem |-> right.rem]

\* bits[lo..hi] * n + carry: its low hi - lo + 1 bits, least significant
\* first, and the carry out
RECURSIVE productBits(_, _, _, _, _)
productBits(bits, n, lo, hi, carry) ==
  IF lo > hi THEN [bits |-> <<>>, carry |-> carry]
  ELSE IF lo = hi
    THEN LET t == bits[lo] * n + carry
         IN  [bits |-> <<t % 2>>, carry |-> t \div 2]
    ELSE LET mid   == (lo + hi) \div 2
             right == productBits(bits, n, mid + 1, hi, carry)
             left  == productBits(bits, n, lo, mid, right.carry)
         IN  [bits |-> right.bits \o left.bits, carry |-> left.carry]

Reverse(s) == [i \in 1..Len(s) |-> s[Len(s) + 1 - i]]

RECURSIVE binary(_)
binary(c) == IF c = 0 THEN <<>> ELSE Append(binary(c \div 2), c % 2)

\* x / n for a number x and an integer n > 0
divide(x, n) ==
  IF x.kind # "num" THEN x
  ELSE LET width == Len(binary(n))
           q     == quotientBits(x.sig, n, 1, Precision + width + 1, 0)
           first == CHOOSE i \in 1..Len(q.bits) :
                      q.bits[i] = 1 /\ \A j \in 1..(i - 1) : q.bits[j] = 0
       IN  roundNearestEven(x.neg, SubSeq(q.bits, first, Len(q.bits)),
                            q.rem # 0, x.exp - (first - 1))

\* x * n for a number x and an integer n > 0
times(x, n) ==
  IF x.kind # "num" THEN x
  ELSE LET p    == productBits(x.sig, n, 1, Precision, 0)
           head == binary(p.carry)
       IN  roundNearestEven(x.neg, head \o Reverse(p.bits), FALSE,
                            x.exp + Len(head))

----------------------------------------------------------------------------
(* ScoringModal: editing the points of one scoring category *)

offense == {"passYds", "passTds", "passInts", "receptions", "receptionYds",
            "receptionTds", "rushYds", "rushTds", "fumbles", "twoPts"}

kickers == {"kickExtraPoints", "kick019", "kick2029", "kick3039",
            "kick4049", "kick50"}

dst == {"dfInts", "dfTds", "dfSacks", "dfFumbles", "dfSafeties"}

ScoringKeys == offense \cup kickers \cup dst

\* some stats are reported as multiples
multiple == [passYds |-> 25, receptionYds |-> 10, rushYds |-> 10]

\* the text of an input: a decimal literal (digits / 10^decimals, with a
\* sign), or a text parseFloat finds no number in ("" or "abc")
NotNumeric == [numeric |-> FALSE, neg |-> FALSE, digits |-> 0, decimals |-> 0]

Texts ==
  { t \in [numeric : {TRUE}, neg : BOOLEAN, digits : 0..MaxEntered,
           decimals : 0..MaxDecimals] : t.digits = 0 => ~t.neg }
    \cup {NotNumeric}

parseFloat(value) ==
  IF ~value.numeric THEN NaN
  ELSE IF value.digits = 0 THEN Zero
  ELSE ratio(value.neg, value.digits, Pow10(value.decimals))

\* x || 0
orZero(x) == IF x.kind = "num" THEN x ELSE Zero

changeScoringOnlyKey(sc, id, value) ==
  LET guarded  == orZero(parseFloat(value))
      numValue == IF id \in DOMAIN multiple
                  THEN divide(parseFloat(value), multiple[id])
                  ELSE guarded
  IN  [k \in DOMAIN sc |-> IF k = id THEN numValue ELSE Zero]

\* the profile changeScoring dispatches for the blur event (id, value)
changeScoring(sc, id, value) ==
  LET guarded  == orZero(parseFloat(value))
      numValue == IF id \in DOMAIN multiple
                  THEN divide(parseFloat(value), multiple[id])
                  ELSE guarded
  IN  [sc EXCEPT ![id] = numValue]

\* the older copy of the handler (part_003)
changeScoringLegacy(sc, id, value) ==
  LET numValue == IF id \in DOMAIN multiple
                  THEN divide(parseFloat(value), multiple[id])
                  ELSE parseFloat(value)
  IN  [sc EXCEPT ![id] = numValue]

\* the value render gives the input of category k
defaultValue(sc, k) ==
  IF k \in offense /\ k \in DOMAIN multiple
  THEN times(sc[k], multiple[k])
  ELSE sc[k]

dispatchSetScoreFormat(sc) == [type |-> "SET_SCORE_FORMAT", scoring |-> sc]

NoEvent == [id |-> "", value |-> NotNumeric]

----------------------------------------------------------------------------
(* _app: the catalog fetch on window load *)

twelveHours == 1000 * 60 * 60 * 12

syncFreshInclusive(ps, lsp, ls, t) ==
  Len(ps) # 0 /\ Len(lsp) # 0 /\ ls > 0 /\ t - ls <= twelveHours

\* players.length && lastSyncPlayers.length && lastSync > 0 &&
\* Date.now() - lastSync < twelveHours
syncFresh(ps, lsp, ls, t) ==
  Len(ps) # 0 /\ Len(lsp) # 0 /\ ls > 0 /\ t - ls < twelveHours

\* what the network gives for the request: a rejection, or a response with
\* a status and a body; a body is text that is not JSON, the JSON null, or a
\* JSON object with or without a data array
NoBody == [kind |-> "none", hasData |-> FALSE, data |-> <<>>]

NotJson == [kind |-> "text", hasData |-> FALSE, data |-> <<>>]

JsonNull == [kind |-> "null", hasData |-> FALSE, data |-> <<>>]

JsonObject(hasData, data) ==
  [kind |-> "object", hasData |-> hasData, data |-> data]

NoResponse == [kind |-> "none", ok |-> FALSE, body |-> NoBody]

Rejection == [kind |-> "rejection", ok |-> FALSE, body |-> NoBody]

Response(ok, body) == [kind |-> "response", ok |-> ok, body |-> body]

\* first then: throws unless res.ok, res.json() rejects unless the body
\* is JSON
readResponseAnyStatus(res) ==
  IF res.body.kind = "text"
  THEN [thrown |-> TRUE, error |-> "SyntaxError", json |-> NoBody]
  ELSE [thrown |-> FALSE, error |-> "", json |-> res.body]

readResponse(res) ==
  IF ~res.ok
  THEN [thrown |-> TRUE, error |-> "Failed to load projections",
        json |-> NoBody]
  ELSE IF res.body.kind = "text"
  THEN [thrown |-> TRUE, error |-> "SyntaxError", json |-> NoBody]
  ELSE [thrown |-> FALSE, error |-> "", json |-> res.body]

CatalogPositions == {"QB", "RB", "WR", "TE", "DST", "K"}

\* `${name[0]}. ${name.split(' ')[1]}`
tableName(name) ==
  LET first  == IF Len(name) = 0 THEN <<"undefined">> ELSE <<name[1]>>
      names  == split(name)
      second == IF Len(names) >= 2 THEN names[2] ELSE <<"undefined">>
  IN  first \o <<".", " ">> \o second

initStore(ps) == [type |-> "INIT_STORE", players |-> ps]

\* second then: reading .data of null throws, and so does the table name
\* of a player without a name
readPlayers(json) ==
  LET data   == IF json.hasData THEN json.data ELSE <<>>
      named  == [i \in 1..Len(data) |->
                   [name      |-> data[i].name,
                    pos       |-> data[i].pos,
                    tableName |-> IF data[i].pos = "DST" THEN data[i].name
                                  ELSE tableName(data[i].name)]]
      Known(p) == p.pos \in CatalogPositions
  IN  IF json.kind = "null"
        \/ \E i \in 1..Len(data) : data[i].pos # "DST" /\ ~data[i].hasName
      THEN [thrown |-> TRUE, error |-> "TypeError", action |-> initStore(<<>>)]
      ELSE [thrown |-> FALSE, error |-> "",
            action |-> initStore(SelectSeq(named, Known))]

----------------------------------------------------------------------------
(* States of the parts a specification leaves alone *)

\* no handler of the player table was called, no update is queued
NothingHandled ==
  /\ pending = NoUpdate
  /\ prevState = constructed
  /\ handled = NoCall
  /\ renders = 0

\* no input of the scoring modal has lost the focus, nothing was dispatched
ModalNotUsed == event = NoEvent /\ dispatched = <<>>

\* the window has not loaded yet and nothing is cached
StartupNotRun ==
  /\ cachedPlayers = <<>>
  /\ lastSync = 0
  /\ lastSyncPlayers = <<>>
  /\ now = 0
  /\ fetchState = "idle"
  /\ response = NoResponse
  /\ warnings = <<>>

----------------------------------------------------------------------------
(* Store states the roster-need computation is applied to *)

\* the slot tag itself for a plain slot, the wildcard table otherwise; the
\* bench takes any skill position
slotPositions(tag) ==
  IF tag = "BENCH" THEN {"QB", "RB", "WR", "TE"}
  ELSE IF wildCardPositions[tag] # {} THEN wildCardPositions[tag]
  ELSE {tag}

slotValues(tag, teams, byes) ==
  {Null} \cup { [pos |-> q, team |-> t, bye |-> b] :
                  q \in slotPositions(tag), t \in teams, b \in byes }

slotLists(tag, n, teams, byes) == [1..n -> slotValues(tag, teams, byes)]

\* every slot list draws its players from a team and a bye week of its own,
\* so that the props show which slot lists were read
slotTeam ==
  [ QB |-> "BUF", RB |-> "KC", WR |-> "MIA", TE |-> "DET", FLEX |-> "SF",
    SUPERFLEX |-> "DAL", DST |-> "NYJ", K |-> "BAL", BENCH |-> "GB" ]

slotBye ==
  [ QB |-> 5, RB |-> 6, WR |-> 7, TE |-> 8, FLEX |-> 9,
    SUPERFLEX |-> 10, DST |-> 11, K |-> 12, BENCH |-> 13 ]

slotsOf(tag, n) == slotLists(tag, n, {slotTeam[tag]}, {slotBye[tag]})

NeedRosters ==
  [ QB        : slotsOf("QB", 1),
    RB        : slotsOf("RB", 2),
    WR        : slotsOf("WR", 1),
    TE        : slotsOf("TE", 1),
    FLEX      : slotsOf("FLEX", 1),
    SUPERFLEX : UNION { slotsOf("SUPERFLEX", n) : n \in 0..MaxSuperflex },
    DST       : slotsOf("DST", 1),
    K         : slotsOf("K", 1),
    BENCH     : slotsOf("BENCH", BenchSize) ]

NoProps ==
  [ byeWeeks |-> {}, currentPick |-> 0, rbHandcuffTeams |-> {},
    scoring |-> [receptions |-> 0], undraftedPlayers |-> <<>>,
    valuedPositions |-> {} ]

InitNeed ==
  /\ roster \in NeedRosters
  /\ undraftedPlayers = <<>>
  /\ currentPick = 1
  /\ scoring = [receptions |-> 0]
  /\ nameFilter = <<>>
  /\ positionsToShow = <<"?">>
  /\ props = NoProps
  /\ view = NoView
  /\ phase = "store"
  /\ NothingHandled
  /\ ModalNotUsed
  /\ StartupNotRun

----------------------------------------------------------------------------
(* Store and component states the render pipeline is applied to *)

\* the undrafted players the lists are drawn from
Catalog ==
  << [name |-> <<"A", "l", " ", "B", "o">>, pos |-> "RB", team |-> "KC",
      std |-> Adp(3), halfPpr |-> Adp(4), ppr |-> Adp(5)],
     [name |-> <<"C", "y", " ", "D", "i">>, pos |-> "RB", team |-> "KC",
      std |-> Adp(60), halfPpr |-> Adp(61), ppr |-> NoAdp],
     [name |-> <<"B", "o">>, pos |-> "RB", team |-> "SF",
      std |-> NoAdp, halfPpr |-> NoAdp, ppr |-> NoAdp],
     [name |-> <<"D", "i", " ", "A", "l">>, pos |-> "WR", team |-> "KC",
      std |-> Adp(0), halfPpr |-> Adp(0), ppr |-> Adp(0)],
     [name |-> <<"B", "o", " ", "C", "y">>, pos |-> "WR", team |-> "SF",
      std |-> Adp(9), halfPpr |-> Adp(10), ppr |-> Adp(11)],
     [name |-> <<"A", "l", " ", "C", "y">>, pos |-> "QB", team |-> "SF",
      std |-> Adp(2), halfPpr |-> Adp(0), ppr |-> NoAdp] >>

\* lists of up to n distinct catalog players, in any order
arrangements(n) ==
  LET picks == UNION { [1..k -> 1..Len(Catalog)] : k \in 0..n }
      distinct(f) == \A i, j \in DOMAIN f : i # j => f[i] # f[j]
  IN  { [i \in DOMAIN f |-> Catalog[f[i]]] : f \in {g \in picks : distinct(g)} }

\* players drafted late that fill the top of a long list
LateBacks ==
  { [name |-> <<"E", "d">>, pos |-> "RB", team |-> "KC",
     std |-> Adp(90), halfPpr |-> Adp(90), ppr |-> Adp(90)],
    [name |-> <<"E", "d">>, pos |-> "WR", team |-> "SF",
     std |-> Adp(90), halfPpr |-> Adp(90), ppr |-> Adp(90)] }

\* long lists: a run of one late player that ends at the handcuff window,
\* followed by a few catalog players
longLists ==
  { [i \in 1..n |-> late] \o tail :
      n \in {HandcuffWindow - 1, HandcuffWindow},
      late \in LateBacks,
      tail \in arrangements(MaxTail) }

rb(team) == [pos |-> "RB", team |-> team, bye |-> 6]
starter(pos) == [pos |-> pos, team |-> "DAL", bye |-> 7]

EmptyRoster ==
  [ QB |-> <<Null>>, RB |-> <<Null, Null>>, WR |-> <<Null>>,
    TE |-> <<Null>>, FLEX |-> <<Null>>, SUPERFLEX |-> <<>>,
    DST |-> <<Null>>, K |-> <<Null>>,
    BENCH |-> [i \in 1..BenchSize |-> Null] ]

FullRoster ==
  [ QB |-> <<starter("QB")>>, RB |-> <<rb("KC"), rb("DAL")>>,
    WR |-> <<starter("WR")>>, TE |-> <<starter("TE")>>,
    FLEX |-> <<starter("WR")>>, SUPERFLEX |-> <<>>,
    DST |-> <<starter("DST")>>, K |-> <<starter("K")>>,
    BENCH |-> [i \in 1..BenchSize |-> Null] ]

\* nothing drafted; one RB drafted; everything but the QB; everything but
\* the WR
RenderRosters ==
  { EmptyRoster,
    [EmptyRoster EXCEPT !.RB = <<rb("KC"), Null>>],
    [FullRoster EXCEPT !.QB = <<Null>>],
    [FullRoster EXCEPT !.WR = <<Null>>] }

\* no filter; a name search; one position selected
FilterStates ==
  { [nameFilter |-> <<>>, positionsToShow |-> <<"?">>],
    [nameFilter |-> <<"B">>, positionsToShow |-> <<"?">>],
    [nameFilter |-> <<>>, positionsToShow |-> <<"RB">>] }

InitRender ==
  /\ roster \in RenderRosters
  /\ undraftedPlayers \in arrangements(MaxPlayers) \cup longLists
  /\ currentPick \in 1..MaxPick
  /\ scoring \in [receptions : Range(AdpCandidates)]
  /\ \E f \in FilterStates :
       nameFilter = f.nameFilter /\ positionsToShow = f.positionsToShow
  /\ props = NoProps
  /\ view = NoView
  /\ phase = "store"
  /\ NothingHandled
  /\ ModalNotUsed
  /\ StartupNotRun

\* the first render: the component state is as constructed, no filter set
InitFirstRender ==
  /\ roster \in RenderRosters
  /\ undraftedPlayers \in arrangements(MaxPlayers) \cup longLists
  /\ currentPick \in 1..MaxPick
  /\ scoring \in [receptions : Range(AdpCandidates)]
  /\ nameFilter = <<>>
  /\ positionsToShow = <<"?">>
  /\ props = NoProps
  /\ view = NoView
  /\ phase = "store"
  /\ NothingHandled
  /\ ModalNotUsed
  /\ StartupNotRun

InitAdp ==
  /\ roster = [EmptyRoster EXCEPT !.RB = <<rb("KC"), Null>>]
  /\ undraftedPlayers \in arrangements(1)
  /\ currentPick = 1
  /\ scoring \in [receptions : (-MaxReceptions)..MaxReceptions]
  /\ nameFilter = <<>>
  /\ positionsToShow = <<"?">>
  /\ props = NoProps
  /\ view = NoView
  /\ phase = "store"
  /\ NothingHandled
  /\ ModalNotUsed
  /\ StartupNotRun

----------------------------------------------------------------------------
(* Actions *)

\* react-redux recomputes the props from the store
Connect ==
  /\ phase = "store"
  /\ props' = mapStateToProps(roster, currentPick, scoring, undraftedPlayers)
  /\ phase' = "props"
  /\ UNCHANGED <<storeVars, stateVars, view, updateVars, modalVars,
                 dispatched, startupVars>>

\* the component renders with the new props
Render ==
  /\ phase = "props"
  /\ view' = render(props, nameFilter, positionsToShow)
  /\ phase' = "rendered"
  /\ UNCHANGED <<storeVars, stateVars, props, updateVars, modalVars,
                 dispatched, startupVars>>

Next == Connect \/ Render

SpecNeed == InitNeed /\ [][Next]_vars

SpecRender == InitRender /\ [][Next]_vars

SpecFirstRender == InitFirstRender /\ [][Next]_vars

SpecAdp == InitAdp /\ [][Next]_vars

\* the player table before its props are computed, nothing drafted
TableNotShown ==
  /\ roster = EmptyRoster
  /\ undraftedPlayers = <<>>
  /\ currentPick = 1
  /\ nameFilter = <<>>
  /\ positionsToShow = <<"?">>
  /\ props = NoProps
  /\ view = NoView
  /\ phase = "store"
  /\ NothingHandled

----------------------------------------------------------------------------
(* The mounted player table: handler calls and the updates they cause *)

\* the texts typed into the search box, and the filter buttons pressed
NameFilters == {<<>>, <<"B">>, <<"b", "o">>}
FilterButtons == {"QB", "RB", "WR", "?"}

\* the table is mounted and has rendered once, nothing is queued
InitFilter ==
  /\ roster = [EmptyRoster EXCEPT !.RB = <<rb("KC"), Null>>]
  /\ undraftedPlayers = Catalog
  /\ currentPick \in 1..MaxPick
  /\ scoring = [receptions |-> 0]
  /\ nameFilter = constructed.nameFilter
  /\ positionsToShow = constructed.positionsToShow
  /\ props = mapStateToProps(roster, currentPick, scoring, undraftedPlayers)
  /\ view = render(props, nameFilter, positionsToShow)
  /\ phase = "rendered"
  /\ NothingHandled
  /\ ModalNotUsed
  /\ StartupNotRun

\* a handler runs once the updates of the previous one are done
Idle == phase = "rendered"

\* the search box changes
SetNameFilter(value) ==
  /\ Idle
  /\ pending' = setNameFilter(value)
  /\ handled' = Call("setNameFilter", value, "?", positionsToShow)
  /\ renders' = 0
  /\ phase' = "queued"
  /\ UNCHANGED <<storeVars, stateVars, props, view, prevState, modalVars,
                 dispatched, startupVars>>

\* a position button is pressed
TogglePositionFilter(position) ==
  /\ Idle
  /\ pending' =
       [NoUpdate EXCEPT !.positionsToShow =
          Given(togglePositionFilter(positionsToShow, position))]
  /\ handled' = Call("togglePositionFilter", <<>>, position, positionsToShow)
  /\ renders' = 0
  /\ phase' = "queued"
  /\ UNCHANGED <<storeVars, stateVars, props, view, prevState, modalVars,
                 dispatched, startupVars>>

ResetPositionFilter ==
  /\ Idle
  /\ pending' = [NoUpdate EXCEPT !.positionsToShow = Given(resetPositionFilter)]
  /\ handled' = Call("resetPositionFilter", <<>>, "?", positionsToShow)
  /\ renders' = 0
  /\ phase' = "queued"
  /\ UNCHANGED <<storeVars, stateVars, props, view, prevState, modalVars,
                 dispatched, startupVars>>

\* a pick, a skip or an undo was dispatched: the store is at another pick
\* and react-redux hands the component new props
StoreChange ==
  /\ Idle
  /\ currentPick' \in (1..MaxPick) \ {currentPick}
  /\ pending' = [NoUpdate EXCEPT !.props = TRUE]
  /\ handled' = Call("dispatch", <<>>, "?", positionsToShow)
  /\ renders' = 0
  /\ phase' = "queued"
  /\ UNCHANGED <<roster, undraftedPlayers, scoring, stateVars, props, view,
                 prevState, modalVars, dispatched, startupVars>>

\* React applies the queued update: the state is replaced and, unless
\* shouldComponentUpdate says no, the component renders again
Update ==
  /\ phase = "queued"
  /\ renders < MaxRenders
  /\ LET next == nextState(nameFilter, positionsToShow, pending)
     IN  /\ nameFilter' = next.nameFilter
         /\ positionsToShow' = next.positionsToShow
         /\ pending' = NoUpdate
         /\ IF shouldComponentUpdate(nameFilter, positionsToShow, pending)
            THEN /\ props' =
                      IF pending.props
                      THEN mapStateToProps(roster, currentPick, scoring,
                                           undraftedPlayers)
                      ELSE props
                 /\ view' = render(props', next.nameFilter,
                                   next.positionsToShow)
                 /\ prevState' = [nameFilter |-> nameFilter,
                                  positionsToShow |-> positionsToShow]
                 /\ renders' = renders + 1
                 /\ phase' = "updated"
            ELSE /\ phase' = "rendered"
                 /\ UNCHANGED <<props, view, prevState, renders>>
  /\ UNCHANGED <<storeVars, handled, modalVars, dispatched, startupVars>>

\* React calls componentDidUpdate after the render is committed
ComponentDidUpdate ==
  /\ phase = "updated"
  /\ LET update == componentDidUpdate(prevState.nameFilter, nameFilter)
     IN  /\ pending' = update
         /\ phase' = IF update = NoUpdate THEN "rendered" ELSE "queued"
  /\ UNCHANGED <<storeVars, stateVars, props, view, prevState, handled,
                 renders, modalVars, dispatched, startupVars>>

NextFilter ==
  \/ \E value \in NameFilters : SetNameFilter(value)
  \/ \E position \in FilterButtons : TogglePositionFilter(position)
  \/ ResetPositionFilter
  \/ StoreChange
  \/ Update
  \/ ComponentDidUpdate

SpecFilter == InitFilter /\ [][NextFilter]_vars

----------------------------------------------------------------------------
(* The scoring modal: one input loses the focus *)

six == ratio(FALSE, 6, 1)

\* no category scores; every category scores 6 points per displayed unit
ScoringProfiles ==
  { [k \in ScoringKeys |-> Zero],
    [k \in ScoringKeys |->
       IF k \in DOMAIN multiple THEN divide(six, multiple[k]) ELSE six] }

InitScoring ==
  /\ TableNotShown
  /\ scoring \in ScoringProfiles
  /\ ModalNotUsed
  /\ StartupNotRun

\* onBlur of the input of category id, holding the text value
ChangeScoring(id, value) ==
  /\ event = NoEvent
  /\ event' = [id |-> id, value |-> value]
  /\ dispatched' =
       Append(dispatched,
              dispatchSetScoreFormat(changeScoring(scoring, id, value)))
  /\ UNCHANGED <<storeVars, tableVars, startupVars>>

ChangeScoringLegacy(id, value) ==
  /\ event = NoEvent
  /\ event' = [id |-> id, value |-> value]
  /\ dispatched' =
       Append(dispatched,
              dispatchSetScoreFormat(changeScoringLegacy(scoring, id, value)))
  /\ UNCHANGED <<storeVars, tableVars, startupVars>>

NextScoring ==
  \E id \in ScoringKeys, value \in Texts :
    ChangeScoring(id, value) \/ ChangeScoringLegacy(id, value)

SpecScoring == InitScoring /\ [][NextScoring]_vars

----------------------------------------------------------------------------
(* Startup: the window loads *)

\* players of the feed: two named backs, a defense, a player without a
\* name and a player of an unknown position
FeedPlayers ==
  { [hasName |-> TRUE, name |-> <<"A", "l", " ", "B", "o">>, pos |-> "RB"],
    [hasName |-> TRUE, name |-> <<"B", "o">>, pos |-> "WR"],
    [hasName |-> TRUE, name |-> <<"J", "e", "t", "s">>, pos |-> "DST"],
    [hasName |-> FALSE, name |-> <<>>, pos |-> "QB"],
    [hasName |-> TRUE, name |-> <<"C", "y", " ", "D", "i">>, pos |-> "P"] }

FeedLists == UNION { [1..n -> FeedPlayers] : n \in 0..MaxFeed }

Bodies ==
  {NotJson, JsonNull, JsonObject(FALSE, <<>>)}
    \cup {JsonObject(TRUE, data) : data \in FeedLists}

Outcomes ==
  {Rejection} \cup {Response(ok, body) : ok \in BOOLEAN, body \in Bodies}

\* the persisted lists: nothing, or one player
CachedLists == {<<>>, <<[name |-> <<"A", "l", " ", "B", "o">>, pos |-> "RB"]>>}

\* time passed since the last sync was stamped
SyncAges == {1, twelveHours - 1, twelveHours, twelveHours + 1}

InitStartup ==
  /\ TableNotShown
  /\ scoring = [receptions |-> 0]
  /\ ModalNotUsed
  /\ cachedPlayers \in CachedLists
  /\ lastSyncPlayers \in CachedLists
  /\ now = 2 * twelveHours
  /\ lastSync \in {0} \cup {2 * twelveHours - age : age \in SyncAges}
  /\ fetchState = "idle"
  /\ response = NoResponse
  /\ warnings = <<>>

\* window.onload: return, or call fetch
Onload ==
  /\ fetchState = "idle"
  /\ fetchState' =
       IF syncFresh(cachedPlayers, lastSyncPlayers, lastSync, now)
       THEN "skipped" ELSE "requested"
  /\ UNCHANGED <<storeVars, tableVars, modalVars, dispatched, cachedPlayers,
                 lastSync, lastSyncPlayers, now, response, warnings>>

\* the promise of fetch settles
Settle(outcome) ==
  /\ fetchState = "requested"
  /\ response' = outcome
  /\ fetchState' = IF outcome.kind = "rejection" THEN "thrown" ELSE "responded"
  /\ UNCHANGED <<storeVars, tableVars, modalVars, dispatched, cachedPlayers,
                 lastSync, lastSyncPlayers, now, warnings>>

\* .then((res) => ...)
ReadResponse ==
  /\ fetchState = "responded"
  /\ fetchState' = IF readResponse(response).thrown THEN "thrown" ELSE "parsed"
  /\ UNCHANGED <<storeVars, tableVars, modalVars, dispatched, cachedPlayers,
                 lastSync, lastSyncPlayers, now, response, warnings>>

\* .then((playerDataArray) => ...)
ReadPlayers ==
  /\ fetchState = "parsed"
  /\ LET result == readPlayers(readResponse(response).json)
     IN  IF result.thrown
         THEN fetchState' = "thrown" /\ dispatched' = dispatched
         ELSE /\ fetchState' = "dispatched"
              /\ dispatched' = Append(dispatched, result.action)
  /\ UNCHANGED <<storeVars, tableVars, modalVars, cachedPlayers,
                 lastSync, lastSyncPlayers, now, response, warnings>>

\* the error a failed step of the chain leaves for the catch
thrownError ==
  IF response.kind = "rejection" THEN "TypeError: Failed to fetch"
  ELSE IF readResponse(response).thrown THEN readResponse(response).error
  ELSE readPlayers(readResponse(response).json).error

\* .catch((err) => console.warn(err))
Catch ==
  /\ fetchState = "thrown"
  /\ warnings' = Append(warnings, thrownError)
  /\ fetchState' = "warned"
  /\ UNCHANGED <<storeVars, tableVars, modalVars, dispatched, cachedPlayers,
                 lastSync, lastSyncPlayers, now, response>>

NextStartup ==
  \/ Onload
  \/ \E outcome \in Outcomes : Settle(outcome)
  \/ ReadResponse
  \/ ReadPlayers
  \/ Catch

SpecStartup == InitStartup /\ [][NextStartup]_vars


----------------------------------------------------------------------------
(* Roster-need properties (mapStateToProps), checked under SpecNeed *)

Primary == {"QB", "RB", "WR", "TE"}

propsComputed == phase # "store"

HasEmptySlot(slots) == \E i \in 1..Len(slots) : slots[i] = Null

HoldsOnBench(q) ==
  \E i \in 1..Len(roster.BENCH) :
    roster.BENCH[i] # Null /\ roster.BENCH[i].pos = q

StartersAllFilled ==
  \A tag \in Primary \cup {"FLEX", "SUPERFLEX"} : ~HasEmptySlot(roster[tag])

\* C1: every primary position (QB, RB, WR, TE) whose starter slot list has
\* at least one empty slot is in valuedPositions; a roster with every slot
\* empty has all four valued.
C1_EmptyPrimarySlotValued ==
  propsComputed =>
    \A q \in Primary :
      HasEmptySlot(roster[q]) => q \in props.valuedPositions

\* RB has one filled and one empty slot, nothing else is open, RB is valued
C1_Witness ==
  /\ phase = "props"
  /\ roster.RB[1] # Null /\ roster.RB[2] = Null
  /\ \A tag \in {"QB", "WR", "TE", "FLEX", "SUPERFLEX"} :
       ~HasEmptySlot(roster[tag])
  /\ "RB" \in props.valuedPositions

\* C2: an empty FLEX slot makes RB, WR and TE valued and an empty SUPERFLEX
\* slot makes QB, RB, WR and TE valued, whatever the primary slots hold.
C2_EmptyWildcardValued ==
  propsComputed =>
    /\ HasEmptySlot(roster.FLEX) =>
         {"RB", "WR", "TE"} \subseteq props.valuedPositions
    /\ HasEmptySlot(roster.SUPERFLEX) =>
         {"QB", "RB", "WR", "TE"} \subseteq props.valuedPositions

\* only the FLEX slot is open and it makes RB, WR and TE valued
C2_Witness ==
  /\ phase = "props"
  /\ HasEmptySlot(roster.FLEX)
  /\ \A tag \in Primary \cup {"SUPERFLEX"} : ~HasEmptySlot(roster[tag])
  /\ props.valuedPositions \cap Primary = {"RB", "WR", "TE"}

\* C3: with every QB, RB, WR, TE, FLEX and SUPERFLEX slot filled, the valued
\* primary positions are RB and WR, QB iff no bench slot holds a QB, and TE
\* iff no bench slot holds a TE; with no QB and no TE on the bench the result
\* is exactly {RB, WR, QB, TE} plus K and DST when their slots are empty.
C3_DepthFallback ==
  (propsComputed /\ StartersAllFilled) =>
    /\ props.valuedPositions \cap Primary =
         {"RB", "WR"} \cup {q \in {"QB", "TE"} : ~HoldsOnBench(q)}
    /\ (~HoldsOnBench("QB") /\ ~HoldsOnBench("TE")) =>
         props.valuedPositions =
           Primary \cup {q \in {"K", "DST"} : HasEmptySlot(roster[q])}

\* all starters filled, one QB on the bench, no TE: QB is not valued, TE is
C3_Witness ==
  /\ phase = "props"
  /\ StartersAllFilled
  /\ Len(roster.SUPERFLEX) = 1
  /\ Cardinality({i \in 1..Len(roster.BENCH) :
                    roster.BENCH[i].pos = "QB"}) = 1
  /\ ~HoldsOnBench("TE")
  /\ props.valuedPositions \cap Primary = {"RB", "WR", "TE"}

\* C4: when some QB, RB, WR, TE, FLEX or SUPERFLEX slot is empty, a primary
\* position is valued only if its own slot list has an empty slot or an empty
\* FLEX/SUPERFLEX slot admits it; the valued primary positions are a function
\* of the starter slots alone, so the bench does not change the result.
C4_NoFallbackWhileStarterOpen ==
  (propsComputed /\ ~StartersAllFilled) =>
    /\ \A q \in Primary :
         q \in props.valuedPositions =>
           \/ HasEmptySlot(roster[q])
           \/ \E w \in {"FLEX", "SUPERFLEX"} :
                HasEmptySlot(roster[w]) /\ q \in wildCardPositions[w]
    /\ props.valuedPositions \cap Primary =
         {q \in Primary :
            \/ HasEmptySlot(roster[q])
            \/ \E w \in {"FLEX", "SUPERFLEX"} :
                 HasEmptySlot(roster[w]) /\ q \in wildCardPositions[w]}

\* only the QB slot is open: the valued primary positions are exactly {QB}
C4_Witness ==
  /\ phase = "props"
  /\ HasEmptySlot(roster.QB)
  /\ \A tag \in {"RB", "WR", "TE", "FLEX", "SUPERFLEX"} :
       ~HasEmptySlot(roster[tag])
  /\ HoldsOnBench("QB") /\ ~HoldsOnBench("TE")
  /\ props.valuedPositions \cap Primary = {"QB"}

\* C5: K is valued iff the K slot list has an empty slot and DST iff the DST
\* slot list has one, whatever the other slots and the bench hold; an empty K
\* or DST slot does not keep the depth fallback from being applied.
C5_KickerDefenseIndependent ==
  propsComputed =>
    /\ "K" \in props.valuedPositions <=> HasEmptySlot(roster.K)
    /\ "DST" \in props.valuedPositions <=> HasEmptySlot(roster.DST)
    /\ (StartersAllFilled
          /\ (HasEmptySlot(roster.K) \/ HasEmptySlot(roster.DST))) =>
         {"RB", "WR"} \subseteq props.valuedPositions

\* all starters filled, K open, DST filled: fallback applied and K valued
C5_Witness ==
  /\ phase = "props"
  /\ StartersAllFilled
  /\ HasEmptySlot(roster.K) /\ ~HasEmptySlot(roster.DST)
  /\ {"RB", "WR", "K"} \subseteq props.valuedPositions
  /\ "DST" \notin props.valuedPositions

----------------------------------------------------------------------------
(* Recommendation properties (render), checked under SpecAdp and SpecRender *)

rendered == phase = "rendered"

Distance(a, b) == IF a >= b THEN a - b ELSE b - a

\* C6: the selected ADP column is the one of std (0), halfPpr (0.5), ppr (1)
\* whose candidate is nearest to the configured points per reception, the
\* earlier column winning an exact tie; 0.5 and 0.3 select halfPpr, 0.25
\* selects std and 0.75 selects halfPpr.
C6_NearestAdpColumn ==
  rendered =>
    LET r == scoring.receptions
    IN  /\ \E k \in 1..3 :
             /\ view.adpCol = <<"std", "halfPpr", "ppr">>[k]
             /\ \A j \in 1..3 :
                  Distance(r, <<0, 50, 100>>[k])
                    <= Distance(r, <<0, 50, 100>>[j])
             /\ \A j \in 1..(k - 1) :
                  Distance(r, <<0, 50, 100>>[k])
                    < Distance(r, <<0, 50, 100>>[j])
        /\ r \in {50, 30, 75} => view.adpCol = "halfPpr"
        /\ r = 25 => view.adpCol = "std"

\* the tie at 0.25 points per reception is resolved to std
C6_Witness ==
  rendered /\ scoring.receptions = 25 /\ view.adpCol = "std"

UndraftedIdx == 1..Len(props.undraftedPlayers)

SelectedAdp(i) == props.undraftedPlayers[i][view.adpCol]

IsValued(i) == props.undraftedPlayers[i].pos \in props.valuedPositions

\* the players recommended ahead of list position i
RecommendedBefore(i) == {j \in view.recommended : j < i}

\* C7: while fewer than 3 recommendations have been made, an undrafted
\* player in a valued position whose ADP in the selected column is undefined
\* or zero is recommended.
C7_MissingAdpRecommended ==
  rendered =>
    \A i \in UndraftedIdx :
      ( /\ Cardinality(RecommendedBefore(i)) < 3
        /\ IsValued(i)
        /\ (~SelectedAdp(i).defined \/ SelectedAdp(i).value = 0) )
      => i \in view.recommended

\* an RB of a handcuff team among the first 30 players of the list
QualifyingHandcuff(i) ==
  /\ props.undraftedPlayers[i].pos = "RB"
  /\ props.undraftedPlayers[i].team \in props.rbHandcuffTeams
  /\ i <= 30

\* C8: every undrafted RB of a handcuff team among the first 30 players of
\* the list is recommended, whether or not RB is valued and whatever the
\* recommendation count and the player's ADP.
C8_HandcuffRecommended ==
  rendered =>
    \A i \in UndraftedIdx : QualifyingHandcuff(i) => i \in view.recommended

\* C9: at most 3 recommended players are not qualifying handcuffs, so the
\* recommended set has at most 3 + (number of qualifying handcuffs) players.
C9_ValueCap ==
  rendered =>
    /\ Cardinality({i \in view.recommended : ~QualifyingHandcuff(i)}) <= 3
    /\ Cardinality(view.recommended) <=
         3 + Cardinality({i \in UndraftedIdx : QualifyingHandcuff(i)})

\* three value recommendations were made and a later player that would
\* otherwise be one is left out
C9_Witness ==
  /\ rendered
  /\ Cardinality({i \in view.recommended : ~QualifyingHandcuff(i)}) = 3
  /\ \E i \in UndraftedIdx :
       /\ i \notin view.recommended
       /\ IsValued(i)
       /\ (view.draftSoon[i] \/ SelectedAdp(i) = Adp(0))

InDraftWindow(i) ==
  /\ SelectedAdp(i).defined
  /\ SelectedAdp(i).value > 0
  /\ SelectedAdp(i).value <= props.currentPick + 8

\* C10 as stated: draftSoon is true exactly for the players whose ADP in the
\* selected column is defined, positive and within 8 picks of the current
\* pick, for every player of the undrafted list.
C10_DraftSoonOriginal ==
  rendered =>
    \A i \in UndraftedIdx : view.draftSoon[i] <=> InDraftWindow(i)

\* C10 amended: draftSoon is true exactly for the players that are not
\* hidden by the position or name filter and whose ADP in the selected
\* column is defined, positive and at most the current pick plus 8.
C10_DraftSoonVisible ==
  rendered =>
    /\ DOMAIN view.draftSoon = UndraftedIdx
    /\ \A i \in UndraftedIdx :
         view.draftSoon[i] <=> (~view.filteredPlayers[i] /\ InDraftWindow(i))

\* a hidden player inside the window is not flagged while a shown player
\* exactly 8 picks ahead is
C10_Witness ==
  /\ rendered
  /\ \E i \in UndraftedIdx :
       view.filteredPlayers[i] /\ InDraftWindow(i) /\ ~view.draftSoon[i]
  /\ \E i \in UndraftedIdx :
       /\ SelectedAdp(i) = Adp(props.currentPick + 8)
       /\ view.draftSoon[i]

\* a player the value branch of the reduce callback accepts
ValueCandidate(i) ==
  IsValued(i) /\ (view.draftSoon[i] \/ SelectedAdp(i) = Adp(0))

\* C11: if the player at list index j is recommended and is not a handcuff,
\* every player at an index i < j whose position is valued and who is
\* draftSoon or has zero ADP is recommended too.
C11_EarliestCandidatesFirst ==
  rendered =>
    \A j \in view.recommended :
      j \notin view.rbHandcuffs =>
        \A i \in 1..(j - 1) : ValueCandidate(i) => i \in view.recommended

\* the three value recommendations went to the first three candidates of a
\* list that holds a fourth one further down
C11_Witness ==
  /\ rendered
  /\ view.rbHandcuffs = {}
  /\ Cardinality(view.recommended) = 3
  /\ \E k \in UndraftedIdx :
       /\ ValueCandidate(k)
       /\ k \notin view.recommended
       /\ \A j \in view.recommended : j < k

\* C12 as stated: a player is in rbHandcuffs exactly when its position is RB
\* and its team is in the handcuff map, whatever the position filter and the
\* name filter are.
C12_HandcuffOriginal ==
  rendered =>
    \A i \in UndraftedIdx :
      i \in view.rbHandcuffs <=>
        /\ props.undraftedPlayers[i].pos = "RB"
        /\ props.undraftedPlayers[i].team \in props.rbHandcuffTeams

\* C12 amended: a player is in rbHandcuffs exactly when it is not hidden by
\* the position filter or the name filter, its position is RB and its team
\* is in the handcuff map.
C12_HandcuffVisible ==
  rendered =>
    /\ view.rbHandcuffs \subseteq UndraftedIdx
    /\ \A i \in UndraftedIdx :
         i \in view.rbHandcuffs <=>
           /\ ~view.filteredPlayers[i]
           /\ props.undraftedPlayers[i].pos = "RB"
           /\ props.undraftedPlayers[i].team \in props.rbHandcuffTeams

\* a name search hides one RB of a handcuff team and shows another one:
\* only the shown RB is a handcuff
C12_Witness ==
  /\ rendered
  /\ nameFilter # <<>>
  /\ \E i \in UndraftedIdx :
       /\ view.filteredPlayers[i]
       /\ props.undraftedPlayers[i].pos = "RB"
       /\ props.undraftedPlayers[i].team \in props.rbHandcuffTeams
       /\ i \notin view.rbHandcuffs
  /\ \E j \in UndraftedIdx :
       ~view.filteredPlayers[j] /\ j \in view.rbHandcuffs

----------------------------------------------------------------------------
(* Handcuff teams and bye weeks (mapStateToProps), checked under SpecNeed *)

\* the players in the slot lists of the given tags
Occupants(tags) ==
  UNION {Range(roster[tag]) : tag \in tags} \ {Null}

\* C13: the handcuff team map contains team T exactly when the tracked
\* roster holds an RB of team T in one of its RB, FLEX, SUPERFLEX or BENCH
\* slots.
C13_HandcuffTeamsOfRoster ==
  propsComputed =>
    props.rbHandcuffTeams =
      {p.team : p \in {q \in Occupants({"RB", "FLEX", "SUPERFLEX", "BENCH"}) :
                         q.pos = "RB"}}

CoreSlots == {"QB", "RB", "WR", "FLEX", "SUPERFLEX"}

----------------------------------------------------------------------------
(* The ADP column read by render, checked under SpecRender *)

\* the list with the two non-selected ADP columns of every player set to v
OtherColumnsSet(players, col, v) ==
  [i \in 1..Len(players) |->
     [c \in DOMAIN players[i] |->
        IF c \in Range(AdpColumns) \ {col} THEN v ELSE players[i][c]]]

\* the render of the same props and component state over that list
RenderWithOtherColumns(v) ==
  render([props EXCEPT
            !.undraftedPlayers = OtherColumnsSet(@, view.adpCol, v)],
         nameFilter, positionsToShow)

\* C15: for a fixed reception weight, a list that differs from the rendered
\* one only in the two non-selected ADP columns (here: both set to undefined,
\* to 0 or to 1 for every player) gives the same draftSoon flags and the same
\* recommended set.
C15_OnlySelectedColumnRead ==
  rendered =>
    \A v \in {NoAdp, Adp(0), Adp(1)} :
      LET other == RenderWithOtherColumns(v)
      IN  /\ other.adpCol = view.adpCol
          /\ other.draftSoon = view.draftSoon
          /\ other.recommended = view.recommended

\* ppr is selected; a shown player in a valued position has an undefined ppr
\* ADP and a std ADP inside the window and is neither flagged nor recommended,
\* while another player is flagged on its ppr ADP
C15_Witness ==
  /\ rendered
  /\ view.adpCol = "ppr"
  /\ \E i \in UndraftedIdx :
       /\ ~view.filteredPlayers[i]
       /\ IsValued(i)
       /\ ~props.undraftedPlayers[i].ppr.defined
       /\ positive(props.undraftedPlayers[i].std)
       /\ props.undraftedPlayers[i].std.value <= props.currentPick + 8
       /\ ~view.draftSoon[i]
       /\ i \notin view.recommended
  /\ \E j \in UndraftedIdx : view.draftSoon[j] /\ j \in view.recommended

----------------------------------------------------------------------------
(* Scoring edits (ScoringModal), checked under SpecScoring *)

\* an input has lost the focus and its handler has dispatched
Handled == event # NoEvent /\ Len(dispatched) = 1

\* the number the user typed
Entered == parseFloat(event.value)

\* the weight the dispatched profile holds for the edited category
Stored == dispatched[1].scoring[event.id]

\* the value the modal shows for the edited category once the dispatched
\* profile is the store's
Displayed == defaultValue(dispatched[1].scoring, event.id)

PerUnits(k) ==
  CASE k = "passYds"      -> 25
    [] k = "receptionYds" -> 10
    [] k = "rushYds"      -> 10
    [] OTHER              -> 1

\* C16: a number v entered for a category with multiplier N (25 for passYds,
\* 10 for receptionYds and rushYds, 1 for every other category) is stored as
\* v/N and displayed back as v.
C16_ScoringRoundTrip ==
  (Handled /\ event.value.numeric) =>
    /\ Stored = divide(Entered, PerUnits(event.id))
    /\ Displayed = Entered

\* C17: editing any category, the yardage categories included, with a text
\* that is not a number stores the weight 0 for it.
C17_MalformedInputStoresZero ==
  (Handled /\ ~event.value.numeric) => Stored = Zero

----------------------------------------------------------------------------
(* The startup fetch (window.onload), checked under SpecStartup *)

Loaded == fetchState # "idle"

Skipped == fetchState = "skipped"

Issued == fetchState \notin {"idle", "skipped"}

SyncedWithinTwelveHours ==
  lastSync > 0 /\ now - lastSync < 12 * 60 * 60 * 1000

FetchFailed ==
  \/ response.kind = "rejection"
  \/ response.kind = "response" /\ (~response.ok \/ response.body = NotJson)

\* C19: initStore is dispatched only when the fetch succeeds; when the
\* request rejects, returns a non-OK status or its body fails to parse,
\* nothing is dispatched and the error is logged, once.
C19_DispatchOnlyOnSuccess ==
  /\ FetchFailed =>
       /\ dispatched = <<>>
       /\ fetchState \in {"responded", "thrown", "warned"}
       /\ Len(warnings) = IF fetchState = "warned" THEN 1 ELSE 0
  /\ dispatched # <<>> =>
       /\ response.kind = "response" /\ response.ok
       /\ response.body.kind \in {"null", "object"}
       /\ Len(dispatched) = 1 /\ dispatched[1].type = "INIT_STORE"
       /\ warnings = <<>>

\* a response with a non-OK status and a body holding players: the error is
\* logged and nothing is dispatched
C19_Witness ==
  /\ fetchState = "warned"
  /\ response.kind = "response" /\ ~response.ok
  /\ response.body.kind = "object" /\ response.body.hasData
  /\ Len(response.body.data) > 0
  /\ \A i \in 1..Len(response.body.data) : response.body.data[i].pos = "RB"
  /\ warnings = <<"Failed to load projections">>
  /\ dispatched = <<>>

----------------------------------------------------------------------------
(* The wildcard table (Player.ts), checked under SpecNeed *)

\* C20: in every state the table has an entry for each slot tag of the
\* roster and for ?; FLEX admits exactly RB, WR and TE, SUPERFLEX exactly QB,
\* RB, WR and TE, and every other slot tag (QB, RB, WR, TE, DST, K, BENCH, ?)
\* admits nothing.
C20_WildcardTable ==
  /\ DOMAIN wildCardPositions = DOMAIN roster \cup {"?"}
  /\ wildCardPositions["FLEX"] = {"RB", "WR", "TE"}
  /\ wildCardPositions["SUPERFLEX"] = {"QB", "RB", "WR", "TE"}
  /\ \A tag \in {"QB", "RB", "WR", "TE", "DST", "K", "BENCH", "?"} :
       wildCardPositions[tag] = {}

\* the FLEX slot holds a TE and the SUPERFLEX slot a QB, both admitted by
\* the table, and the props have been computed
C20_Witness ==
  /\ phase = "props"
  /\ roster.FLEX[1] # Null /\ roster.FLEX[1].pos = "TE"
  /\ Len(roster.SUPERFLEX) = 1
  /\ roster.SUPERFLEX[1] # Null /\ roster.SUPERFLEX[1].pos = "QB"
  /\ roster.FLEX[1].pos \in wildCardPositions["FLEX"]
  /\ roster.SUPERFLEX[1].pos \in wildCardPositions["SUPERFLEX"]

----------------------------------------------------------------------------
(* The filters of the mounted table (setState, componentDidUpdate), checked *)
(* under SpecFilter                                                         *)

\* the updates of the last handler call are done
Settled == Idle /\ handled # NoCall

\* C21: once the updates of a handler call are done, the name filter is the
\* empty string unless the call was setNameFilter, and after setNameFilter
\* it is the text that call set: every update that did not change the name
\* filter (new props, a position toggle, a position reset) has cleared it.
C21_NameFilterClearing ==
  Settled =>
    IF handled.handler = "setNameFilter"
    THEN nameFilter = handled.text
    ELSE nameFilter = <<>>

\* a position button was pressed while a name was searched for: the table
\* rendered twice and the name filter is cleared
C21_Witness ==
  /\ Settled
  /\ handled.handler = "togglePositionFilter"
  /\ prevState.nameFilter = <<"B">>
  /\ nameFilter = <<>>
  /\ renders = 2

NoDuplicates(seq) ==
  \A i, j \in 1..Len(seq) : i # j => seq[i] # seq[j]

\* C22: in every state positionsToShow is not empty, holds no position
\* twice, and holds ? only as its single element; and when it is <<"?">>,
\* the position filter hides no player, so that without a name filter the
\* rendered table hides none.
C22_PositionFilterInvariant ==
  /\ Len(positionsToShow) > 0
  /\ NoDuplicates(positionsToShow)
  /\ "?" \in Range(positionsToShow) => positionsToShow = <<"?">>
  /\ positionsToShow = <<"?">> =>
       /\ \A i \in 1..Len(undraftedPlayers) :
            ~positionFiltered(undraftedPlayers, positionsToShow)[i]
       /\ Idle /\ nameFilter = <<>> =>
            \A i \in 1..Len(view.filteredPlayers) : ~view.filteredPlayers[i]

\* the last selected position was toggled off and the filter is back at
\* ALL
C22_Witness ==
  /\ Settled
  /\ handled.handler = "togglePositionFilter"
  /\ handled.position # "?"
  /\ Len(handled.before) = 1 /\ handled.before[1] = handled.position
  /\ positionsToShow = <<"?">>
  /\ Len(view.filteredPlayers) > 0

\* C23: once a toggle of a real position is done, positionsToShow is what
\* the toggle computed from the filter it read, and toggling the same
\* position again gives the positions it read, as a set; a toggle of ?
\* leaves <<"?">>, and so does another one.
C23_ToggleTwiceRestores ==
  Settled /\ handled.handler = "togglePositionFilter" =>
    LET again == togglePositionFilter(positionsToShow, handled.position)
    IN  IF handled.position = "?"
        THEN positionsToShow = <<"?">> /\ again = <<"?">>
        ELSE /\ positionsToShow =
                  togglePositionFilter(handled.before, handled.position)
             /\ Range(again) = Range(handled.before)

\* one of two selected positions was toggled off
C23_Witness ==
  /\ Settled
  /\ handled.handler = "togglePositionFilter"
  /\ handled.position # "?"
  /\ Len(handled.before) = 2
  /\ handled.position \in Range(handled.before)
  /\ Len(positionsToShow) = 1

\* the guards of Update and of ComponentDidUpdate
UpdateCanProceed ==
  \/ phase = "queued" /\ renders < MaxRenders
  \/ phase = "updated"

\* C24: a handler call makes the table render at most twice (the update it
\* queued and one more for the reset of the name filter); while updates
\* are not done the next step of React is possible, and when they are done
\* no update is queued.
C24_ResetDoesNotLoop ==
  /\ renders <= 2
  /\ Idle => pending = NoUpdate
  /\ ~Idle => UpdateCanProceed

\* new props arrived while a name was searched for: the reset rendered the
\* table a second time and nothing is queued
C24_Witness ==
  /\ Settled
  /\ handled.handler = "dispatch"
  /\ prevState.nameFilter # <<>>
  /\ renders = 2
  /\ pending = NoUpdate

----------------------------------------------------------------------------
(* The frame of a scoring edit (ScoringModal), checked under SpecScoring *)

\* C25: the profile dispatched for a blur event has the categories of the
\* current profile, and every category other than the edited one keeps its
\* weight, whatever the category and the text entered.
C25_OnlyEditedCategoryChanges ==
  Handled =>
    /\ DOMAIN dispatched[1].scoring = DOMAIN scoring
    /\ \A k \in ScoringKeys \ {event.id} :
         dispatched[1].scoring[k] = scoring[k]

\* a yardage category of a profile with non-zero weights was edited and
\* its weight changed
C25_Witness ==
  /\ Handled
  /\ event.id \in DOMAIN multiple
  /\ event.value.numeric
  /\ \A k \in ScoringKeys : scoring[k].kind = "num"
  /\ Stored # scoring[event.id]

----------------------------------------------------------------------------
(* What puts a player into the recommended set (render), checked under     *)
(* SpecRender                                                               *)

\* (a) the position is valued and the player is draftSoon or has a
\* selected-column ADP of exactly 0
ByValue(i) ==
  IsValued(i) /\ (view.draftSoon[i] \/ isZero(SelectedAdp(i)))

\* (b) an RB of a handcuff team at a (0-based) list index below 30
ByHandcuff(i) ==
  /\ props.undraftedPlayers[i].pos = "RB"
  /\ props.undraftedPlayers[i].team \in props.rbHandcuffTeams
  /\ i - 1 < HandcuffWindow

\* C26: after render every recommended player is one of the undrafted
\* players and satisfies (a) or (b); one at index 30 or later satisfies (a).
C26_RecommendedJustified ==
  rendered =>
    \A i \in view.recommended :
      /\ i \in UndraftedIdx
      /\ ByValue(i) \/ ByHandcuff(i)
      /\ i - 1 >= HandcuffWindow => ByValue(i)

\* a player beyond the handcuff window is recommended for its value, and a
\* handcuff that is no value pick is recommended too
C26_Witness ==
  /\ rendered
  /\ \E i \in view.recommended : i - 1 >= HandcuffWindow /\ ByValue(i)
  /\ \E j \in view.recommended : ~ByValue(j) /\ ByHandcuff(j)

\* C27: after render a player hidden by the position filter or the name
\* filter is not flagged draftSoon, is no rbHandcuff, and is recommended
\* only if its position is valued and its selected-column ADP is exactly 0.
C27_HiddenPlayersUnflagged ==
  rendered =>
    \A i \in UndraftedIdx :
      view.filteredPlayers[i] =>
        /\ ~view.draftSoon[i]
        /\ i \notin view.rbHandcuffs
        /\ i \in view.recommended =>
             IsValued(i) /\ isZero(SelectedAdp(i))

\* a filter is set; a hidden player inside the draft window is not flagged,
\* a hidden RB of a handcuff team is no handcuff, and a hidden player with
\* ADP 0 is recommended
C27_Witness ==
  /\ rendered
  /\ \E i \in UndraftedIdx :
       /\ view.filteredPlayers[i]
       /\ positive(SelectedAdp(i))
       /\ props.currentPick + DraftSoonWindow >= SelectedAdp(i).value
  /\ \E j \in UndraftedIdx :
       /\ view.filteredPlayers[j]
       /\ props.undraftedPlayers[j].pos = "RB"
       /\ props.undraftedPlayers[j].team \in props.rbHandcuffTeams
  /\ \E k \in view.recommended : view.filteredPlayers[k]

=============================================================================
